---- MODULE Spec2Model ----
(***************************************************************************)
(* Backtracking Sudoku solver of src/src/main.rs: Cell, Position, Board,   *)
(* first_empty_cell, is_digit_valid_here, solve_sudoku and the driver of   *)
(* main (from_iter, Board::new, reset_from, solve_sudoku).                 *)
(*                                                                         *)
(* A Board is a sequence of Cells; Rust's 0-based index i is element i+1.  *)
(* The recursion of solve_sudoku is an explicit stack of frames, one step  *)
(* per function entry, per iteration of the digit loop and per return.     *)
(***************************************************************************)
EXTENDS Integers, Sequences, FiniteSets, TLC

(***************************************************************************)
(* Bounds of the model.                                                    *)
(***************************************************************************)
\* how many cells of OpenOrder an input may leave empty
MaxOpen == 4
\* largest backtrack count a root call is started with
MaxStart == 1

(***************************************************************************)
(* Cell (lines 7-44).                                                      *)
(***************************************************************************)
Empty == 0

Digit(d) == d

is_empty(cell) == cell = Empty

\* Cell::set returns Err for a digit above 9 (line 26)
MaxDigit == 9

CellSetFails(digit) == digit > MaxDigit

\* the value Cell::set stores when it does not fail (lines 33-36)
CellSet(digit) == IF digit = 0 THEN Empty ELSE Digit(digit)

\* Cell::new: an Empty cell, then set (lines 14-19)
CellNew(digit) == CellSet(digit)

CellClear == Empty

(***************************************************************************)
(* Position (lines 58-78).                                                 *)
(***************************************************************************)
Side == 9

BoxSide == 3

NumCells == 81

PositionNew(row, column) == (row * Side) + column

Row(position) == position \div Side

Column(position) == position % Side

(***************************************************************************)
(* Board (lines 80-149).                                                   *)
(***************************************************************************)
BoardNew == [i \in 1..NumCells |-> Empty]

\* Index / IndexMut: Vec indexing panics when the index is out of bounds
InBounds(b, position) == position < Len(b)

At(b, position) == b[position + 1]

Put(b, position, cell) == [b EXCEPT ![position + 1] = cell]

\* (mutant) reset_from that copies the digits of the template only and
\* leaves a cell alone where the template is Empty
reset_from_digits_only(self, other) ==
    [i \in 1..Len(self) |-> IF is_empty(other[i]) THEN self[i] ELSE other[i]]

\* copy_from_slice panics when the two slices differ in length
ResetFromPanics(self, other) == Len(self) # Len(other)

reset_from(self, other) == [i \in 1..Len(self) |-> other[i]]

\* from_iter: Cell::new(digit).unwrap() panics on the first Err; the length
\* is checked by debug_assert_eq only, i.e. only when debug assertions are on
FromIterPanics(iter, debug) ==
    \/ \E i \in 1..Len(iter) : CellSetFails(iter[i])
    \/ debug /\ Len(iter) # NumCells

from_iter(iter) == [i \in 1..Len(iter) |-> CellNew(iter[i])]

(***************************************************************************)
(* first_empty_cell (lines 237-248).  The result is a position, NoPosition *)
(* for None, or Panicked when a read is out of bounds.                     *)
(***************************************************************************)
NoPosition == -1

Panicked == -2

\* for column in 0..9 (lines 239-244); NoPosition when the row has no empty cell
RECURSIVE ScanColumns(_, _, _)
ScanColumns(b, row, column) ==
    IF column = Side THEN NoPosition
    ELSE LET position == PositionNew(row, column)
         IN  IF ~InBounds(b, position) THEN Panicked
             ELSE IF is_empty(At(b, position)) THEN position
             ELSE ScanColumns(b, row, column + 1)

\* for row in 0..9 (lines 238-245)
RECURSIVE ScanRows(_, _)
ScanRows(b, row) ==
    IF row = Side THEN NoPosition
    ELSE LET found == ScanColumns(b, row, 0)
         IN  IF found # NoPosition THEN found ELSE ScanRows(b, row + 1)

first_empty_cell(b) == ScanRows(b, 0)

(***************************************************************************)
(* is_digit_valid_here (lines 250-290).  RowReads, ColumnReads, BoxReads   *)
(* are the positions the three loops read, in order; the result is "true", *)
(* "false", or "panic" when a read is out of bounds.                       *)
(***************************************************************************)
RowReads(position) ==
    LET row_to_check == Row(position)
    IN  [k \in 1..Side |-> PositionNew(row_to_check, k - 1)]

\* (mutant) the column loop reads column position.row()
ColumnReadsOfRow(position) ==
    LET column_to_check == Row(position)
    IN  [k \in 1..Side |-> PositionNew(k - 1, column_to_check)]

ColumnReads(position) ==
    LET column_to_check == Column(position)
    IN  [k \in 1..Side |-> PositionNew(k - 1, column_to_check)]

\* (mutant) the box origin is not rounded down to a multiple of 3
BoxReadsUnrounded(position) ==
    LET first_row_to_check == Row(position)
        first_column_to_check == Column(position)
    IN  [k \in 1..(BoxSide * BoxSide) |->
            PositionNew(first_row_to_check + ((k - 1) \div BoxSide),
                        first_column_to_check + ((k - 1) % BoxSide))]

BoxReads(position) ==
    LET first_row_to_check == Row(position) - (Row(position) % BoxSide)
        first_column_to_check == Column(position) - (Column(position) % BoxSide)
    IN  [k \in 1..(BoxSide * BoxSide) |->
            PositionNew(first_row_to_check + ((k - 1) \div BoxSide),
                        first_column_to_check + ((k - 1) % BoxSide))]

\* one of the three loops: "true" when it ends without return false
RECURSIVE ScanDigit(_, _, _, _)
ScanDigit(b, digit, reads, k) ==
    IF k > Len(reads) THEN "true"
    ELSE IF ~InBounds(b, reads[k]) THEN "panic"
    ELSE IF ~is_empty(At(b, reads[k])) /\ At(b, reads[k]) = digit THEN "false"
    ELSE ScanDigit(b, digit, reads, k + 1)

is_digit_valid_here(b, digit, position) ==
    LET in_row == ScanDigit(b, digit, RowReads(position), 1)
    IN  IF in_row # "true" THEN in_row
        ELSE LET in_column == ScanDigit(b, digit, ColumnReads(position), 1)
             IN  IF in_column # "true" THEN in_column
                 ELSE ScanDigit(b, digit, BoxReads(position), 1)

\* the digits the loop of solve_sudoku tries: 1..=9 (line 216)
FirstDigit == 1

LastDigit == 9

(***************************************************************************)
(* Inputs: the puzzle of main (lines 169-179) with the other cells of its  *)
(* completed grid given as clues too, except for a set of cells left       *)
(* empty; optionally one cell overwritten; optionally one element short or *)
(* long.                                                                   *)
(***************************************************************************)
Puzzle ==
    << 0, 0, 5, 0, 2, 0, 6, 0, 0,
       0, 9, 0, 6, 0, 4, 0, 1, 0,
       2, 0, 0, 5, 0, 0, 0, 0, 3,
       0, 0, 6, 0, 3, 0, 0, 0, 0,
       0, 0, 0, 8, 0, 1, 0, 0, 0,
       0, 0, 0, 0, 9, 0, 4, 0, 0,
       3, 0, 0, 0, 0, 2, 0, 0, 7,
       0, 1, 0, 9, 0, 0, 0, 5, 0,
       0, 0, 4, 0, 6, 0, 8, 0, 0 >>

Completed ==
    << 1, 4, 5, 3, 2, 7, 6, 9, 8,
       7, 9, 3, 6, 8, 4, 5, 1, 2,
       2, 6, 8, 5, 1, 9, 7, 4, 3,
       4, 2, 6, 7, 3, 5, 9, 8, 1,
       9, 5, 7, 8, 4, 1, 2, 3, 6,
       8, 3, 1, 2, 9, 6, 4, 7, 5,
       3, 8, 9, 4, 5, 2, 1, 6, 7,
       6, 1, 2, 9, 7, 8, 3, 5, 4,
       5, 7, 4, 1, 6, 3, 8, 2, 9 >>

\* empty cells of Puzzle that an input may leave empty
OpenOrder ==
    << PositionNew(5, 5), PositionNew(5, 2), PositionNew(3, 8), PositionNew(3, 5),
       PositionNew(4, 4) >>

\* the first k cells of OpenOrder, for every k up to MaxOpen
OpenSets ==
    { { OpenOrder[j] : j \in 1..k } :
        k \in 0..(IF MaxOpen < Len(OpenOrder) THEN MaxOpen ELSE Len(OpenOrder)) }

\* a given clue of Puzzle that an input may overwrite
PokeCell == PositionNew(3, 2)

\* the values an input may write there: every valid u8 and the first invalid one
PokeValues == 0..(MaxDigit + 1)

Clues(open, poke) ==
    [i \in 1..NumCells |->
        IF i - 1 = PokeCell THEN poke
        ELSE IF Puzzle[i] # 0 THEN Puzzle[i]
        ELSE IF (i - 1) \in open THEN 0
        ELSE Completed[i]]

Resize(seq, len) ==
    [i \in 1..len |-> IF i <= Len(seq) THEN seq[i] ELSE 0]

Inputs ==
    { Clues(open, poke) : open \in OpenSets, poke \in PokeValues }
    \cup { Resize(Clues(open, Completed[PokeCell + 1]), len) :
              open \in OpenSets, len \in {NumCells - 1, NumCells + 1} }

(***************************************************************************)
(* State.                                                                  *)
(***************************************************************************)
VARIABLES
    pc,                \* "main" | "built" | "idle" | "call" | "loop" | "ret" | "panicked"
    input,             \* the sequence the template was built from
    unsolved_board,    \* the template Board of main
    board,             \* the Board handed to solve_sudoku
    loaded,            \* how board got its contents: "new" | "reset" | "fresh" | "used"
    stack,             \* the active frames of solve_sudoku that found an empty cell
    arg,               \* backtrack_count passed to the call being entered
    ret,               \* (solved, backtrack_count) returned by the last return
    start,             \* history: board and counter of the root call, how it was loaded
    trace,             \* history: what the current root call has done so far
    recorded,          \* history: outcome of the first counter-0 solve of this template
    probe              \* a single call of is_digit_valid_here and what it returned

vars == << pc, input, unsolved_board, board, loaded, stack,
           arg, ret, start, trace, recorded, probe >>

NoRet == [solved |-> FALSE, count |-> 0, entry |-> << >>]

NoProbe == [done |-> FALSE, digit |-> 0, position |-> 0, valid |-> "none"]

NoStart == [board |-> << >>, count |-> 0, loaded |-> "new"]

NoTrace == [calls |-> 0, sets |-> 0, clears |-> 0, dead_ends |-> 0]

NoRecord == [kind |-> "none", solved |-> FALSE, count |-> 0, board |-> << >>]

Init ==
    /\ pc = "main"
    /\ input = << >>
    /\ unsolved_board = << >>
    /\ board = << >>
    /\ loaded = "new"
    /\ stack = << >>
    /\ arg = 0
    /\ ret = NoRet
    /\ start = NoStart
    /\ trace = NoTrace
    /\ recorded = NoRecord
    /\ probe = NoProbe

(***************************************************************************)
(* The driver (main, lines 169-200).                                       *)
(***************************************************************************)
\* let unsolved_board = Board::from_iter(iter) (line 169); debug_assertions
\* is the build: whether debug_assert_eq is compiled in
FromIter(iter, debug_assertions) ==
    /\ pc = "main"
    /\ input' = iter
    /\ IF FromIterPanics(iter, debug_assertions)
       THEN /\ pc' = "panicked"
            /\ UNCHANGED unsolved_board
       ELSE /\ pc' = "built"
            /\ unsolved_board' = from_iter(iter)
    /\ UNCHANGED << board, loaded, stack, arg, ret, start, trace, recorded, probe >>

\* let mut board = Board::new() (line 188)
NewBoard ==
    /\ pc = "built"
    /\ board' = BoardNew
    /\ loaded' = "new"
    /\ pc' = "idle"
    /\ UNCHANGED << input, unsolved_board, stack, arg, ret,
                    start, trace, recorded, probe >>

\* board.reset_from(&unsolved_board) (line 192)
ResetFrom ==
    /\ pc = "idle"
    /\ IF ResetFromPanics(board, unsolved_board)
       THEN /\ pc' = "panicked"
            /\ UNCHANGED << board, loaded >>
       ELSE /\ board' = reset_from(board, unsolved_board)
            /\ loaded' = "reset"
            /\ pc' = "idle"
    /\ UNCHANGED << input, unsolved_board, stack, arg, ret,
                    start, trace, recorded, probe >>

\* a Board freshly constructed from the template's sequence
FreshBoard ==
    /\ pc = "idle"
    /\ board' = from_iter(input)
    /\ loaded' = "fresh"
    /\ UNCHANGED << pc, input, unsolved_board, stack, arg, ret,
                    start, trace, recorded, probe >>

\* solve_sudoku(&mut board, count): the root call (line 194)
SolveStart(count) ==
    /\ pc = "idle"
    /\ loaded # "new"
    /\ pc' = "call"
    /\ arg' = count
    /\ stack' = << >>
    /\ ret' = NoRet
    /\ start' = [board |-> board, count |-> count, loaded |-> loaded]
    /\ trace' = NoTrace
    /\ UNCHANGED << input, unsolved_board, board, loaded, recorded, probe >>

(***************************************************************************)
(* solve_sudoku (lines 213-235).                                           *)
(***************************************************************************)
Top == stack[Len(stack)]

Pop == SubSeq(stack, 1, Len(stack) - 1)

SetTop(frame) == [stack EXCEPT ![Len(stack)] = frame]

\* (mutant) the success is counted as a backtrack
SuccessResultCounted(count, b) == [solved |-> TRUE, count |-> count + 1, entry |-> b]

\* (true, backtrack_count): no empty cell (line 233)
SuccessResult(count, b) == [solved |-> TRUE, count |-> count, entry |-> b]

\* (false, backtrack_count + 1): the dead end (line 230)
DeadEndResult(frame) ==
    [solved |-> FALSE, count |-> frame.backtrack_count + 1, entry |-> frame.entry]

\* return (true, new_backtrack_count) (line 221)
Propagate(frame, new_backtrack_count) ==
    [solved |-> TRUE, count |-> new_backtrack_count, entry |-> frame.entry]

\* (mutant) the count the failed call returned is dropped
AfterFailureKeepsCount(frame, new_backtrack_count) == [frame EXCEPT !.digit = @ + 1]

\* backtrack_count = new_backtrack_count, then the next digit (lines 223, 216)
AfterFailure(frame, new_backtrack_count) ==
    [frame EXCEPT !.backtrack_count = new_backtrack_count, !.digit = @ + 1]

\* the digit is not valid here: the next digit (lines 216-217)
NextDigit(frame) == [frame EXCEPT !.digit = @ + 1]

\* (mutant) the digit is not written to the board
PlaceNothing(b, position, digit) == b

\* board[position].set(digit).unwrap() (line 218)
Place(b, position, digit) == Put(b, position, CellSet(digit))

\* (mutant) the cell is not cleared after the failed call
UndoForgotten(b, position) == b

\* board[position].clear() (line 224)
Undo(b, position) == Put(b, position, CellClear)

\* function entry: first_empty_cell, and the else branch (lines 214, 231-234)
Call ==
    /\ pc = "call"
    /\ LET position == first_empty_cell(board)
       IN  IF position = Panicked
           THEN /\ pc' = "panicked"
                /\ UNCHANGED << stack, ret >>
           ELSE IF position = NoPosition
           THEN /\ pc' = "ret"
                /\ ret' = SuccessResult(arg, board)
                /\ UNCHANGED stack
           ELSE /\ pc' = "loop"
                /\ stack' = Append(stack, [position |-> position,
                                           digit |-> FirstDigit,
                                           backtrack_count |-> arg,
                                           received |-> arg,
                                           entry |-> board])
                /\ UNCHANGED ret
    /\ trace' = [trace EXCEPT !.calls = @ + 1]
    /\ UNCHANGED << input, unsolved_board, board, loaded, arg,
                    start, recorded, probe >>

\* one iteration of the digit loop up to the recursive call (lines 216-219)
TryDigit ==
    /\ pc = "loop"
    /\ Top.digit <= LastDigit
    /\ LET valid == is_digit_valid_here(board, Top.digit, Top.position)
       IN  IF valid = "panic"
           THEN /\ pc' = "panicked"
                /\ UNCHANGED << board, stack, arg, trace >>
           ELSE IF valid = "true"
           THEN /\ board' = Place(board, Top.position, Top.digit)
                /\ arg' = Top.backtrack_count
                /\ pc' = "call"
                /\ trace' = [trace EXCEPT !.sets = @ + 1]
                /\ UNCHANGED stack
           ELSE /\ stack' = SetTop(NextDigit(Top))
                /\ UNCHANGED << pc, board, arg, trace >>
    /\ UNCHANGED << input, unsolved_board, loaded, ret, start,
                    recorded, probe >>

\* the recursive call has returned (lines 219-224)
Returned ==
    /\ pc = "ret"
    /\ stack # << >>
    /\ IF ret.solved
       THEN /\ ret' = Propagate(Top, ret.count)
            /\ stack' = Pop
            /\ UNCHANGED << pc, board, trace >>
       ELSE /\ stack' = SetTop(AfterFailure(Top, ret.count))
            /\ board' = Undo(board, Top.position)
            /\ pc' = "loop"
            /\ trace' = [trace EXCEPT !.clears = @ + 1]
            /\ UNCHANGED ret
    /\ UNCHANGED << input, unsolved_board, loaded, arg, start,
                    recorded, probe >>

\* the digit loop is exhausted: a dead end (line 230)
DeadEnd ==
    /\ pc = "loop"
    /\ Top.digit > LastDigit
    /\ ret' = DeadEndResult(Top)
    /\ stack' = Pop
    /\ pc' = "ret"
    /\ trace' = [trace EXCEPT !.dead_ends = @ + 1]
    /\ UNCHANGED << input, unsolved_board, board, loaded, arg,
                    start, recorded, probe >>

\* the root call returns to main (lines 194-195)
Record ==
    IF start.count = 0 /\ start.loaded \in {"reset", "fresh"} /\ recorded.kind = "none"
    THEN [kind |-> start.loaded, solved |-> ret.solved, count |-> ret.count,
          board |-> board]
    ELSE recorded

Finish ==
    /\ pc = "ret"
    /\ stack = << >>
    /\ pc' = "idle"
    /\ loaded' = "used"
    /\ recorded' = Record
    /\ UNCHANGED << input, unsolved_board, board, stack, arg, ret, start, trace,
                    probe >>

SolverStep == Call \/ TryDigit \/ Returned \/ DeadEnd \/ Finish

Next ==
    \/ \E iter \in Inputs, debug_assertions \in BOOLEAN : FromIter(iter, debug_assertions)
    \/ NewBoard
    \/ ResetFrom
    \/ FreshBoard
    \/ \E count \in 0..MaxStart : SolveStart(count)
    \/ SolverStep

Spec == Init /\ [][Next]_vars

\* solve_sudoku runs to its return: nothing suspends or preempts it
FairSpec == Spec /\ WF_vars(SolverStep)

(***************************************************************************)
(* is_digit_valid_here on its own: any Board from_iter can build, any      *)
(* digit of the loop, any position.                                        *)
(***************************************************************************)
Boards ==
    { from_iter(iter) :
        iter \in { i \in Inputs \cup {Puzzle} :
                      \E debug \in BOOLEAN : ~FromIterPanics(i, debug) } }

CheckerInit ==
    /\ pc = "probe"
    /\ input = << >>
    /\ unsolved_board = << >>
    /\ board \in Boards
    /\ loaded = "fresh"
    /\ stack = << >>
    /\ arg = 0
    /\ ret = NoRet
    /\ start = NoStart
    /\ trace = NoTrace
    /\ recorded = NoRecord
    /\ probe = NoProbe

Probe(digit, position) ==
    /\ pc = "probe"
    /\ ~probe.done
    /\ probe' = [done |-> TRUE, digit |-> digit, position |-> position,
                 valid |-> is_digit_valid_here(board, digit, position)]
    /\ UNCHANGED << pc, input, unsolved_board, board, loaded, stack, arg, ret,
                    start, trace, recorded >>

CheckerNext ==
    \E digit \in FirstDigit..LastDigit, position \in 0..(NumCells - 1) :
        Probe(digit, position)

CheckerSpec == CheckerInit /\ [][CheckerNext]_vars

(***************************************************************************)
(* What the claims speak of, stated without the code's loops.              *)
(***************************************************************************)
Positions == 0..(NumCells - 1)

SameRow(p, q) == p \div Side = q \div Side

SameColumn(p, q) == p % Side = q % Side

SameBox(p, q) ==
    /\ p \div (Side * BoxSide) = q \div (Side * BoxSide)
    /\ (p % Side) \div BoxSide = (q % Side) \div BoxSide

SameGroup(p, q) == SameRow(p, q) \/ SameColumn(p, q) \/ SameBox(p, q)

\* digit d stands in a cell of p's row, column or box
Occurs(b, d, p) == \E q \in Positions : SameGroup(p, q) /\ b[q + 1] = d

EmptyCells(b) == { p \in 0..(Len(b) - 1) : b[p + 1] = Empty }

NoEmptyCell(b) == EmptyCells(b) = {}

\* no digit twice in a row, a column or a box
NoDuplicate(b) ==
    \A p \in Positions : \A q \in Positions :
        (p < q /\ SameGroup(p, q) /\ b[p + 1] # Empty) => b[p + 1] # b[q + 1]

Legal(b) == NoEmptyCell(b) /\ NoDuplicate(b)

\* every way to give each cell of `cells` a digit that none of the clues of b
\* in its row, column or box holds (a legal completion is one of these)
RECURSIVE Fills(_, _, _)
Fills(b, g, cells) ==
    IF cells = {} THEN {g}
    ELSE LET p == CHOOSE x \in cells : TRUE
         IN  UNION { Fills(b, Put(g, p, d), cells \ {p}) :
                       d \in { e \in 1..9 : ~Occurs(b, e, p) } }

\* b has a completion: all empty cells filled, the clues kept, the grid legal
HasCompletion(b) == \E g \in Fills(b, b, EmptyCells(b)) : Legal(g)

Running == pc \in {"call", "loop", "ret"}

\* the root call has returned to main and the board is as it left it
Done == pc = "idle" /\ loaded = "used"

\* the root call was given a Board of 81 cells
WellFormed == Len(start.board) = NumCells

\* the backtrack count the search holds at this point
Counter ==
    IF pc = "call" THEN arg
    ELSE IF pc = "loop" THEN Top.backtrack_count
    ELSE ret.count

(***************************************************************************)
(* C1: whenever solve_sudoku returns true on an 81-cell board, whatever    *)
(* the clues and the starting counter, the board has no Empty cell and no  *)
(* digit twice in a row, column or box.                                    *)
(***************************************************************************)
SuccessIsLegal == (Done /\ WellFormed /\ ret.solved) => Legal(board)

\* what does hold: the same, for clues that do not already clash
SuccessIsLegalForConsistentClues ==
    (Done /\ WellFormed /\ ret.solved /\ NoDuplicate(start.board)) => Legal(board)

(***************************************************************************)
(* C2: a board whose clues already hold the same digit twice in a row,     *)
(* column or box (boards without empty cells included) makes the root call *)
(* return false, with a count that is not negative.                        *)
(***************************************************************************)
ClashingCluesFail ==
    (Done /\ WellFormed /\ ~NoDuplicate(start.board))
        => (~ret.solved /\ ret.count >= 0)

(***************************************************************************)
(* C3: the search is complete: if the root call returns false the initial  *)
(* board has no completion; so a board that has one makes it return true.  *)
(***************************************************************************)
SearchIsComplete ==
    (Done /\ WellFormed) => (HasCompletion(start.board) => ret.solved)

\* the root call failed, after placements and dead ends, on clues that do not clash
FailureOnConsistentClues ==
    /\ Done /\ WellFormed
    /\ ~ret.solved
    /\ NoDuplicate(start.board)
    /\ trace.sets > 1
    /\ trace.dead_ends > 1

(***************************************************************************)
(* C4: building a Board from a sequence that has not exactly 81 elements   *)
(* or holds a value above 9 fails and yields no Board; so every Board that *)
(* exists has exactly 81 cells.                                            *)
(***************************************************************************)
MalformedSequenceRejected ==
    /\ (pc # "main" /\ (Len(input) # NumCells
                         \/ \E i \in 1..Len(input) : input[i] > MaxDigit))
          => (pc = "panicked" /\ unsolved_board = << >>)
    /\ unsolved_board # << >> => Len(unsolved_board) = NumCells
    /\ board # << >> => Len(board) = NumCells

(***************************************************************************)
(* C5: on a board without empty cells that satisfies all constraints,      *)
(* solve_sudoku returns true without placing or clearing a cell and        *)
(* without a recursive call, leaves the board as it was and returns the    *)
(* counter it was given.                                                   *)
(***************************************************************************)
SolvedBoardReturnsAtOnce ==
    ((Running \/ Done) /\ WellFormed /\ Legal(start.board))
        => /\ board = start.board
           /\ trace.sets = 0 /\ trace.clears = 0 /\ trace.calls <= 1
           /\ stack = << >>
           /\ pc # "loop"
           /\ (pc = "ret" \/ Done) => (ret.solved /\ ret.count = start.count
                                        /\ trace.calls = 1)

\* a legal full board was solved with a starting counter that is not 0
SolvedBoardWasSolved ==
    Done /\ WellFormed /\ Legal(start.board) /\ ret.solved /\ start.count > 0

(***************************************************************************)
(* C6: reset_from(template) followed by solve_sudoku with counter 0, after *)
(* whatever was done with the working board before, gives the final board, *)
(* the success flag and the backtrack count of solving a Board freshly     *)
(* built from the template's sequence; and solving the same initial board  *)
(* again gives the same.                                                   *)
(***************************************************************************)
OutcomeDependsOnContentsOnly ==
    /\ (pc = "idle" /\ loaded = "reset") => board = from_iter(input)
    /\ (Done /\ start.count = 0 /\ start.loaded \in {"reset", "fresh"})
          => /\ recorded.kind # "none"
             /\ ret.solved = recorded.solved
             /\ ret.count = recorded.count
             /\ board = recorded.board

\* a solve after reset_from has returned, with backtracking, after a solve of
\* a freshly built Board had returned and left its outcome to compare with
ResetSolvedAfterFresh ==
    /\ Done
    /\ start.count = 0 /\ start.loaded = "reset"
    /\ recorded.kind = "fresh"
    /\ ret.solved /\ ret.count > 1

(***************************************************************************)
(* C7: is_digit_valid_here(board, d, p) returns false exactly when d       *)
(* stands in a cell of p's row, column or 3x3 box, true otherwise, and     *)
(* leaves the board unchanged.                                             *)
(***************************************************************************)
CheckerIsExact ==
    (probe.done /\ Len(board) = NumCells)
        => probe.valid = (IF Occurs(board, probe.digit, probe.position)
                          THEN "false" ELSE "true")

\* C7: the checker's answer is exact after every probe, and no probe changes the board
ValidityCheckerExact == []CheckerIsExact /\ [][board' = board]_vars

\* the checker refused a digit that stands in the box only
RefusedForTheBoxOnly ==
    /\ probe.done /\ Len(board) = NumCells
    /\ probe.valid = "false"
    /\ \A q \in Positions :
          (SameRow(probe.position, q) \/ SameColumn(probe.position, q))
              => board[q + 1] # probe.digit

(***************************************************************************)
(* C8: the counter grows by exactly one at each dead end and changes at no *)
(* other time: it is always the starting counter plus the dead ends so     *)
(* far, never decreases, a frame that returns success returns the count of *)
(* its successful child, and a frame that returns failure returns more     *)
(* than it received.                                                       *)
(***************************************************************************)
CounterIsStartPlusDeadEnds ==
    /\ Running => Counter = start.count + trace.dead_ends
    /\ Done => ret.count = start.count + trace.dead_ends

AtDeadEnd == pc = "loop" /\ Top.digit > LastDigit

CounterStep ==
    (Running /\ Running')
        => /\ Counter' = (IF AtDeadEnd THEN Counter + 1 ELSE Counter)
           /\ AtDeadEnd => (~ret'.solved /\ ret'.count > Top.received)
           /\ (pc = "ret" /\ stack # << >> /\ ret.solved)
                 => (ret'.solved /\ ret'.count = ret.count)

\* C8: the counter is the start plus the dead ends in every state, and every
\* step of the search changes it by one at a dead end and by nothing otherwise
BacktrackCounting == []CounterIsStartPlusDeadEnds /\ [][CounterStep]_vars

\* a successful solve that met dead ends, started with a counter that is not 0
SolvedAfterDeadEnd ==
    Done /\ ret.solved /\ trace.dead_ends > 2 /\ start.count > 0

(***************************************************************************)
(* C9: every call of solve_sudoku on an 81-cell board returns; the number  *)
(* of active frames never exceeds the number of cells empty in the initial *)
(* board (at most 81), and each nested frame starts on a board with        *)
(* strictly fewer empty cells than its caller.                             *)
(***************************************************************************)
DepthBounded ==
    (Running /\ WellFormed)
        => /\ Len(stack) <= Cardinality(EmptyCells(start.board))
           /\ Len(stack) <= NumCells
           /\ \A i \in 1..(Len(stack) - 1) :
                 Cardinality(EmptyCells(stack[i + 1].entry))
                     < Cardinality(EmptyCells(stack[i].entry))
           /\ (pc = "call" /\ stack # << >>)
                 => Cardinality(EmptyCells(board))
                        < Cardinality(EmptyCells(Top.entry))

\* C9: the depth bound holds in every state and every running solve returns
SolveReturnsWithBoundedDepth ==
    []DepthBounded /\ ((Running /\ WellFormed) ~> Done)

\* the search is as deep as the initial board has empty cells
DepthReachesEmptyCells ==
    /\ Running /\ WellFormed
    /\ Len(stack) = Cardinality(EmptyCells(start.board))
    /\ Len(stack) >= 3

(***************************************************************************)
(* C10: during a solve every clue of the initial board stays as it was;    *)
(* when a frame returns failure the board is as it was when the frame was  *)
(* entered; so after a failure of the root call the board is the initial   *)
(* board.                                                                  *)
(***************************************************************************)
CluesKeptFailureRestores ==
    (Running \/ Done)
        => /\ Len(board) = Len(start.board)
           /\ \A i \in 1..Len(board) :
                 start.board[i] # Empty => board[i] = start.board[i]
           /\ (pc = "ret" /\ ~ret.solved) => board = ret.entry
           /\ (Done /\ ~ret.solved) => board = start.board

\* the root call failed after placing digits and meeting several dead ends
FailedAfterPlacements ==
    Done /\ ~ret.solved /\ trace.sets > 1 /\ trace.dead_ends > 3

====
